---- MODULE Spec2Model ----
(***************************************************************************)
(* Permission matcher of simple-access-control: a PermissionTree owns an   *)
(* allow trie and a deny trie of PermissionNode, built once from a list of *)
(* rule strings, and answers isAllowed / explain queries.                  *)
(*                                                                         *)
(* A string is modelled as the sequence of its characters, each character  *)
(* a one-character TLA+ string, so that startsWith, slice, split and join  *)
(* are computed the way the JavaScript built-ins compute them.             *)
(***************************************************************************)
EXTENDS Integers, Sequences, FiniteSets, TLC

VARIABLES
    permissions,   \* the rule strings handed to the constructor
    allowTree,     \* PermissionTree.allowTree (root PermissionNode)
    denyTree,      \* PermissionTree.denyTree  (root PermissionNode)
    resourcePath,  \* the caller's resourcePath argument
    action,        \* the caller's action argument
    decision,      \* <<b>> once isAllowed has returned b, <<>> before
    explanation,   \* <<e>> once explain has returned e, <<>> before
    calls          \* the calls in progress, walked node by node (SpecSteps)

vars == <<permissions, allowTree, denyTree, resourcePath, action,
          decision, explanation, calls>>

-----------------------------------------------------------------------------
(* Bounds of the model *)

MaxRules == 2      \* rule strings per constructor call
MaxSegs == 4       \* segments of a queried resource path

-----------------------------------------------------------------------------
(* String constants of the source *)

Bang == <<"!">>
Star == <<"*">>
TripleStar == <<"*", "*", "*">>
ColonColon == <<":", ":">>
SemiSemi == <<";", ";">>
CommaSpace == <<",", " ">>

-----------------------------------------------------------------------------
(* JavaScript string built-ins *)

startsWith(s, prefix) ==
    /\ Len(s) >= Len(prefix)
    /\ SubSeq(s, 1, Len(prefix)) = prefix

\* s.slice(n): s without its first n characters
slice(s, n) == SubSeq(s, n + 1, Len(s))

\* s.split(sep), sep non-empty: the pieces between the occurrences of sep,
\* found left to right without overlap; always at least one piece.
RECURSIVE splitFrom(_, _, _)
splitFrom(s, sep, piece) ==
    IF s = <<>> THEN <<piece>>
    ELSE IF startsWith(s, sep)
         THEN <<piece>> \o splitFrom(slice(s, Len(sep)), sep, <<>>)
         ELSE splitFrom(Tail(s), sep, Append(piece, Head(s)))

\* split on the first character of the separator alone
split_firstChar(s, sep) == splitFrom(s, <<Head(sep)>>, <<>>)

split(s, sep) == splitFrom(s, sep, <<>>)

\* list.join(sep)
RECURSIVE join(_, _)
join(list, sep) ==
    IF list = <<>> THEN <<>>
    ELSE IF Len(list) = 1 THEN list[1]
         ELSE list[1] \o sep \o join(Tail(list), sep)

-----------------------------------------------------------------------------
(* PermissionNode *)

\* new PermissionNode(): no children, no actions
NewNode == [children |-> <<>>, actions |-> {}]

\* children.has(key)
has(node, key) == key \in DOMAIN node.children

\* children.set(key, child) on a copy of the node
withChild(node, key, child) ==
    [node EXCEPT !.children =
        [k \in (DOMAIN node.children) \cup {key} |->
            IF k = key THEN child ELSE node.children[k]]]

\* insert that sets a fresh child without asking whether one exists
RECURSIVE insert_freshChild(_, _, _)
insert_freshChild(node, segments, act) ==
    IF segments = <<>>
    THEN [node EXCEPT !.actions = @ \cup {act}]
    ELSE withChild(node, Head(segments),
                   insert_freshChild(NewNode, Tail(segments), act))

\* insert that leaves the action on every node of the path it walks
RECURSIVE insert_markPath(_, _, _)
insert_markPath(node, segments, act) ==
    IF segments = <<>>
    THEN [node EXCEPT !.actions = @ \cup {act}]
    ELSE LET head == Head(segments)
             rest == Tail(segments)
             made == IF has(node, head) THEN node
                     ELSE withChild(node, head, NewNode)
             marked == [made EXCEPT !.actions = @ \cup {act}]
         IN  withChild(marked, head, insert_markPath(made.children[head], rest, act))

RECURSIVE insert(_, _, _)
insert(node, segments, act) ==
    IF segments = <<>>
    THEN [node EXCEPT !.actions = @ \cup {act}]
    ELSE LET head == Head(segments)
             rest == Tail(segments)
             made == IF has(node, head) THEN node
                     ELSE withChild(node, head, NewNode)
         IN  withChild(made, head, insert(made.children[head], rest, act))

\* the actions test without the "*" alternative
actionsMatch_exactOnly(node, act) == act \in node.actions

\* the actions test with a requested "*" standing for any stored action
actionsMatch_queryStar(node, act) ==
    \/ Star \in node.actions
    \/ act \in node.actions
    \/ act = Star /\ node.actions # {}

\* this.actions.has("*") || this.actions.has(action)
actionsMatch(node, act) == Star \in node.actions \/ act \in node.actions

\* the *** shortcut taken whatever action the *** child carries
tripleWildcardHit_anyAction(node, act) ==
    /\ has(node, TripleStar)
    /\ node.children[TripleStar].actions # {}

\* the *** shortcut taken only for the requested action itself
tripleWildcardHit_literalAction(node, act) ==
    /\ has(node, TripleStar)
    /\ act \in node.children[TripleStar].actions

\* the *** child when it exists and carries "*" or the action
tripleWildcardHit(node, act) ==
    /\ has(node, TripleStar)
    /\ actionsMatch(node.children[TripleStar], act)

\* nextNodes without the * child
nextNodes_exactOnly(node, head) ==
    IF has(node, head) THEN <<node.children[head]>> ELSE <<>>

\* nextNodes with the ** child taken as one more wildcard
nextNodes_doubleStar(node, head) ==
    (IF has(node, head) THEN <<node.children[head]>> ELSE <<>>)
    \o (IF has(node, Star) THEN <<node.children[Star]>> ELSE <<>>)
    \o (IF has(node, Star \o Star) THEN <<node.children[Star \o Star]>> ELSE <<>>)

\* nextNodes with the *** child taken as one more single-segment wildcard
nextNodes_tripleStar(node, head) ==
    (IF has(node, head) THEN <<node.children[head]>> ELSE <<>>)
    \o (IF has(node, Star) THEN <<node.children[Star]>> ELSE <<>>)
    \o (IF has(node, TripleStar) THEN <<node.children[TripleStar]>> ELSE <<>>)

\* [children.get(head), children.get("*")].filter(Boolean)
nextNodes(node, head) ==
    (IF has(node, head) THEN <<node.children[head]>> ELSE <<>>)
    \o (IF has(node, Star) THEN <<node.children[Star]>> ELSE <<>>)

\* match with the *** shortcut taken before the test for no segments left
RECURSIVE match_tripleFirst(_, _, _)
match_tripleFirst(node, segments, act) ==
    IF tripleWildcardHit(node, act)
    THEN TRUE
    ELSE IF segments = <<>>
         THEN actionsMatch(node, act)
         ELSE LET next == nextNodes(node, Head(segments))
              IN  \E i \in 1..Len(next) :
                      match_tripleFirst(next[i], Tail(segments), act)

\* match that also accepts a node whose actions match while segments are
\* left, so that a rule covers every deeper path
RECURSIVE match_prefix(_, _, _)
match_prefix(node, segments, act) ==
    IF segments = <<>>
    THEN actionsMatch(node, act)
    ELSE IF tripleWildcardHit(node, act) \/ actionsMatch(node, act)
         THEN TRUE
         ELSE LET next == nextNodes(node, Head(segments))
              IN  \E i \in 1..Len(next) : match_prefix(next[i], Tail(segments), act)

RECURSIVE match(_, _, _)
match(node, segments, act) ==
    IF segments = <<>>
    THEN actionsMatch(node, act)
    ELSE IF tripleWildcardHit(node, act)
         THEN TRUE
         ELSE LET next == nextNodes(node, Head(segments))
              IN  \E i \in 1..Len(next) : match(next[i], Tail(segments), act)

\* one MatchResult: the rule text rebuilt from the trie keys walked so far
matchResult(path, act) ==
    [matched |-> TRUE,
     matchedRule |-> join(path, ColonColon) \o SemiSemi \o act,
     matchedSegments |-> path]

\* the results pushed for one node: first for "*", then for the action
actionResults(node, act, path) ==
    (IF Star \in node.actions THEN <<matchResult(path, Star)>> ELSE <<>>)
    \o (IF act \in node.actions THEN <<matchResult(path, act)>> ELSE <<>>)

\* matchWithDetails that looks under the * child only when the exact child
\* gave nothing
RECURSIVE matchWithDetails_firstBranch(_, _, _, _)
matchWithDetails_firstBranch(node, segments, act, currentPath) ==
    IF segments = <<>>
    THEN actionResults(node, act, currentPath)
    ELSE LET head == Head(segments)
             rest == Tail(segments)
             tripleResults ==
                 IF has(node, TripleStar)
                 THEN actionResults(node.children[TripleStar], act,
                                    Append(currentPath, TripleStar))
                 ELSE <<>>
             exactResults ==
                 IF has(node, head)
                 THEN matchWithDetails_firstBranch(node.children[head], rest, act,
                                                   Append(currentPath, head))
                 ELSE <<>>
             wildcardResults ==
                 IF has(node, Star) /\ exactResults = <<>>
                 THEN matchWithDetails_firstBranch(node.children[Star], rest, act,
                                                   Append(currentPath, Star))
                 ELSE <<>>
         IN  tripleResults \o exactResults \o wildcardResults

RECURSIVE matchWithDetails(_, _, _, _)
matchWithDetails(node, segments, act, currentPath) ==
    IF segments = <<>>
    THEN actionResults(node, act, currentPath)
    ELSE LET head == Head(segments)
             rest == Tail(segments)
             tripleResults ==
                 IF has(node, TripleStar)
                 THEN actionResults(node.children[TripleStar], act,
                                    Append(currentPath, TripleStar))
                 ELSE <<>>
             exactResults ==
                 IF has(node, head)
                 THEN matchWithDetails(node.children[head], rest, act,
                                       Append(currentPath, head))
                 ELSE <<>>
             wildcardResults ==
                 IF has(node, Star)
                 THEN matchWithDetails(node.children[Star], rest, act,
                                       Append(currentPath, Star))
                 ELSE <<>>
         IN  tripleResults \o exactResults \o wildcardResults

-----------------------------------------------------------------------------
(* PermissionTree *)

\* the parse of one rule string in the constructor's loop body
isDenied(perm) == startsWith(perm, Bang)

clean(perm) == IF isDenied(perm) THEN slice(perm, 1) ELSE perm

\* const [path, action = "*"] = clean.split(";;")
pathOf(perm) == split(clean(perm), SemiSemi)[1]

\* the parse with the empty string for a missing action
actionOf_empty(perm) ==
    LET parts == split(clean(perm), SemiSemi)
    IN  IF Len(parts) >= 2 THEN parts[2] ELSE <<>>

actionOf(perm) ==
    LET parts == split(clean(perm), SemiSemi)
    IN  IF Len(parts) >= 2 THEN parts[2] ELSE Star

segmentsOf(perm) == split(pathOf(perm), ColonColon)

\* a parser that rejects a rule with an empty path
throws_validating(perm) == pathOf(perm) = <<>>

\* the loop body raises: path is undefined when clean.split(";;") has no
\* piece, and path.split("::") is then a TypeError; nothing else in the body
\* can raise
throws(perm) == Len(split(clean(perm), SemiSemi)) < 1

\* the loop body with every rule, its "!" removed, inserted in the allow tree
insertPermission_oneTree(trees, perm) ==
    [trees EXCEPT !.allowTree = insert(@, segmentsOf(perm), actionOf(perm))]

\* one iteration of the constructor's loop
insertPermission(trees, perm) ==
    IF isDenied(perm)
    THEN [trees EXCEPT !.denyTree = insert(@, segmentsOf(perm), actionOf(perm))]
    ELSE [trees EXCEPT !.allowTree = insert(@, segmentsOf(perm), actionOf(perm))]

RECURSIVE constructorLoop(_, _)
constructorLoop(trees, perms) ==
    IF perms = <<>> THEN trees
    ELSE constructorLoop(insertPermission(trees, Head(perms)), Tail(perms))

\* new PermissionTree(perms)
constructor(perms) ==
    constructorLoop([allowTree |-> NewNode, denyTree |-> NewNode], perms)

\* isAllowed consulting the allow tree only
isAllowed_ignoringDeny(tree, path, act) ==
    match(tree.allowTree, split(path, ColonColon), act)

\* isAllowed allowing whatever the deny tree does not match
isAllowed_defaultAllow(tree, path, act) ==
    ~match(tree.denyTree, split(path, ColonColon), act)

isAllowed(tree, path, act) ==
    LET segments == split(path, ColonColon)
    IN  IF match(tree.denyTree, segments, act) THEN FALSE
        ELSE match(tree.allowTree, segments, act)

\* .filter(m => m.matched)
isMatched(m) == m.matched

\* .map(m => m.matchedRule!)
ruleOf(list) == [i \in 1..Len(list) |-> list[i].matchedRule]

\* the deny texts without the sign put back
denyRuleOf_noSign(list) == [i \in 1..Len(list) |-> list[i].matchedRule]

\* .map(m => "!" + m.matchedRule!)
denyRuleOf(list) == [i \in 1..Len(list) |-> Bang \o list[i].matchedRule]

\* .filter(Boolean): the empty string is the one falsy string
truthy(s) == s # <<>>

\* the decision taken from the allow matches alone
explainAllowed_ignoringDeny(hasDenyMatch, hasAllowMatch) == hasAllowMatch

\* the decision of explain's if / else-if / else chain
explainAllowed(hasDenyMatch, hasAllowMatch) ==
    IF hasDenyMatch THEN FALSE
    ELSE IF hasAllowMatch THEN TRUE
         ELSE FALSE

\* the reason without the branch for a denial with allow matches present
explainReason_denyOnly(hasDenyMatch, hasAllowMatch, matchedDenyRules, matchedAllowRules, path, act) ==
    IF hasDenyMatch
    THEN <<"Access denied by exclusion rule(s): ",
           join(matchedDenyRules, CommaSpace),
           ".">>
    ELSE IF hasAllowMatch
         THEN <<"Access allowed by rule(s): ",
                join(matchedAllowRules, CommaSpace),
                ".">>
         ELSE <<"Access denied: no matching allow rules found for resource \"",
                path,
                "\" and action \"",
                act,
                "\".">>

\* the reason chosen by looking at the allow matches first
explainReason_allowFirst(hasDenyMatch, hasAllowMatch, matchedDenyRules, matchedAllowRules, path, act) ==
    IF hasAllowMatch
    THEN IF hasDenyMatch
         THEN <<"Access denied by exclusion rule(s): ",
                join(matchedDenyRules, CommaSpace),
                ". Although allow rule(s) matched: ",
                join(matchedAllowRules, CommaSpace),
                ", deny rules take precedence.">>
         ELSE <<"Access allowed by rule(s): ",
                join(matchedAllowRules, CommaSpace),
                ".">>
    ELSE <<"Access denied: no matching allow rules found for resource \"",
           path,
           "\" and action \"",
           act,
           "\".">>

\* the reason of explain's if / else-if / else chain. A reason is a template
\* literal: the sequence of its fixed texts and interpolated strings, in order.
explainReason(hasDenyMatch, hasAllowMatch, matchedDenyRules, matchedAllowRules, path, act) ==
    IF hasDenyMatch
    THEN IF hasAllowMatch
         THEN <<"Access denied by exclusion rule(s): ",
                join(matchedDenyRules, CommaSpace),
                ". Although allow rule(s) matched: ",
                join(matchedAllowRules, CommaSpace),
                ", deny rules take precedence.">>
         ELSE <<"Access denied by exclusion rule(s): ",
                join(matchedDenyRules, CommaSpace),
                ".">>
    ELSE IF hasAllowMatch
         THEN <<"Access allowed by rule(s): ",
                join(matchedAllowRules, CommaSpace),
                ".">>
         ELSE <<"Access denied: no matching allow rules found for resource \"",
                path,
                "\" and action \"",
                act,
                "\".">>

\* explain once both match lists are collected
explainFrom(allowMatches, denyMatches, path, act) ==
    LET matchedAllowRules ==
            SelectSeq(ruleOf(SelectSeq(allowMatches, isMatched)), truthy)
        matchedDenyRules ==
            SelectSeq(denyRuleOf(SelectSeq(denyMatches, isMatched)), truthy)
        hasDenyMatch == \E i \in 1..Len(denyMatches) : denyMatches[i].matched
        hasAllowMatch == \E i \in 1..Len(allowMatches) : allowMatches[i].matched
    IN  [allowed |-> explainAllowed(hasDenyMatch, hasAllowMatch),
         reason |-> explainReason(hasDenyMatch, hasAllowMatch, matchedDenyRules,
                                  matchedAllowRules, path, act),
         matchedAllowRules |-> matchedAllowRules,
         matchedDenyRules |-> matchedDenyRules,
         path |-> split(path, ColonColon),
         action |-> act]

explain(tree, path, act) ==
    LET segments == split(path, ColonColon)
        allowMatches == matchWithDetails(tree.allowTree, segments, act, <<>>)
        denyMatches == matchWithDetails(tree.denyTree, segments, act, <<>>)
    IN  explainFrom(allowMatches, denyMatches, path, act)

explainPermission(tree, path, act) == explain(tree, path, act)

-----------------------------------------------------------------------------
(* Inputs *)

\* rule strings the constructor is given
RulePool ==
    { <<"a", ":", ":", "*", ";", ";", "r">>,                  \* a::*;;r
      <<"a", ":", ":", "b", ";", ";", "*">>,                  \* a::b;;*
      <<"a", ":", ":", "*", "*", "*", ";", ";", "r">>,        \* a::***;;r
      <<"a", ":", ":", "*", ":", ":", "b", ";", ";", "r">>,   \* a::*::b;;r
      <<"!", "*", ":", ":", "b", ";", ";", "r">>,             \* !*::b;;r
      <<"!", "a", ":", ":", "*", "*", "*", ";", ";", "*">> }  \* !a::***;;*

RuleLists == UNION { [1..n -> RulePool] : n \in 0..MaxRules }

\* segments and actions of the queries
QuerySegs == { <<"a">>, <<"b">> }
QueryActions == { <<"r">>, <<"w">>, Star }

SegLists == UNION { [1..n -> QuerySegs] : n \in 1..MaxSegs }
ResourcePaths == { join(segs, ColonColon) : segs \in SegLists }

-----------------------------------------------------------------------------
(* The state machine: a matcher is constructed from a rule list, and a     *)
(* caller holding one query (resourcePath, action) calls the three public  *)
(* entry points on it, in any order and any number of times.               *)

\* the PermissionTree object
matcher == [allowTree |-> allowTree, denyTree |-> denyTree]

Init ==
    /\ permissions \in RuleLists
    /\ allowTree = constructor(permissions).allowTree
    /\ denyTree = constructor(permissions).denyTree
    /\ resourcePath \in ResourcePaths
    /\ action \in QueryActions
    /\ decision = <<>>
    /\ explanation = <<>>
    /\ calls = <<>>

IsAllowed ==
    /\ decision' = <<isAllowed(matcher, resourcePath, action)>>
    /\ UNCHANGED <<permissions, allowTree, denyTree, resourcePath, action,
                   explanation, calls>>

Explain ==
    /\ explanation' = <<explain(matcher, resourcePath, action)>>
    /\ UNCHANGED <<permissions, allowTree, denyTree, resourcePath, action,
                   decision, calls>>

ExplainPermission ==
    /\ explanation' = <<explainPermission(matcher, resourcePath, action)>>
    /\ UNCHANGED <<permissions, allowTree, denyTree, resourcePath, action,
                   decision, calls>>

Next == IsAllowed \/ Explain \/ ExplainPermission

Spec == Init /\ [][Next]_vars

-----------------------------------------------------------------------------
(* The calls walked node by node. match and matchWithDetails visit the     *)
(* nodes of a tree depth first, the exact child before the * child; a call *)
(* in progress holds the visits still to make, the next one first. Several *)
(* callers share the one matcher and every visit reads the tree as it is   *)
(* at that moment, so the steps of different calls interleave freely.      *)

\* callers sharing the matcher
MaxCallers == 2

Callers == 1..MaxCallers

\* the matchers and queries of the walked calls
StepRuleLists ==
    { << <<"a", ":", ":", "*", ";", ";", "r">>,
         <<"a", ":", ":", "b", ";", ";", "*">>,
         <<"!", "*", ":", ":", "b", ";", ";", "r">> >>,
      << <<"a", ":", ":", "*", "*", "*", ";", ";", "r">>,
         <<"!", "a", ":", ":", "b", ";", ";", "w">> >> }

StepPaths == { <<"a", ":", ":", "b">>, <<"a", ":", ":", "a">> }
StepActions == { <<"r">>, <<"w">> }

\* the node reached from a root along the keys
RECURSIVE nodeAt(_, _)
nodeAt(node, keys) ==
    IF keys = <<>> THEN node ELSE nodeAt(node.children[Head(keys)], Tail(keys))

\* a visit still to make: the node, by its keys from the root, and the
\* segments left when it is reached
Frame(keys, segments) == [keys |-> keys, segments |-> segments]

\* the visits a node with segments left hands on: the exact child, then the
\* * child
childFrames(node, frame) ==
    LET head == Head(frame.segments)
        rest == Tail(frame.segments)
    IN  (IF has(node, head) THEN <<Frame(Append(frame.keys, head), rest)>> ELSE <<>>)
        \o (IF has(node, Star) THEN <<Frame(Append(frame.keys, Star), rest)>> ELSE <<>>)

\* a caller that has made no call yet
Idle ==
    [op |-> "idle", path |-> <<>>, act |-> <<>>, pc |-> "idle", stack |-> <<>>,
     allowMatches |-> <<>>, denyMatches |-> <<>>, ret |-> <<>>]

\* the tree a call is walking
treeOf(call) == IF call.pc = "deny" THEN denyTree ELSE allowTree

Walking(c) == calls[c].pc \in {"deny", "allow"}

\* a caller free to call: it has made no call or its call has returned
Free(c) == calls[c].pc \in {"idle", "done"}

InitSteps ==
    /\ permissions \in StepRuleLists
    /\ allowTree = constructor(permissions).allowTree
    /\ denyTree = constructor(permissions).denyTree
    /\ resourcePath = <<>>
    /\ action = <<>>
    /\ decision = <<>>
    /\ explanation = <<>>
    /\ calls = [c \in Callers |-> Idle]

\* isAllowed entered with the allow tree matched first
startIsAllowed_allowFirst(path, act) ==
    [op |-> "isAllowed", path |-> path, act |-> act, pc |-> "allow",
     stack |-> <<Frame(<<>>, split(path, ColonColon))>>,
     allowMatches |-> <<>>, denyMatches |-> <<>>, ret |-> <<>>]

\* isAllowed(path, act) is entered: the deny tree is matched first
startIsAllowed(path, act) ==
    [op |-> "isAllowed", path |-> path, act |-> act, pc |-> "deny",
     stack |-> <<Frame(<<>>, split(path, ColonColon))>>,
     allowMatches |-> <<>>, denyMatches |-> <<>>, ret |-> <<>>]

\* explain(path, act) is entered: the allow tree is walked first
startExplain(path, act) ==
    [op |-> "explain", path |-> path, act |-> act, pc |-> "allow",
     stack |-> <<Frame(<<>>, split(path, ColonColon))>>,
     allowMatches |-> <<>>, denyMatches |-> <<>>, ret |-> <<>>]

CallIsAllowed(c) ==
    /\ Free(c)
    /\ \E p \in StepPaths, a \in StepActions :
          calls' = [calls EXCEPT ![c] = startIsAllowed(p, a)]
    /\ UNCHANGED <<permissions, allowTree, denyTree, resourcePath, action,
                   decision, explanation>>

CallExplain(c) ==
    /\ Free(c)
    /\ \E p \in StepPaths, a \in StepActions :
          calls' = [calls EXCEPT ![c] = startExplain(p, a)]
    /\ UNCHANGED <<permissions, allowTree, denyTree, resourcePath, action,
                   decision, explanation>>

\* explainPermission(tree, path, act) forwards to tree.explain(path, act)
CallExplainPermission(c) ==
    /\ Free(c)
    /\ \E p \in StepPaths, a \in StepActions :
          calls' = [calls EXCEPT ![c] = startExplain(p, a)]
    /\ UNCHANGED <<permissions, allowTree, denyTree, resourcePath, action,
                   decision, explanation>>

\* what one visit of match finds at the node: "hit" when the match is
\* decided true there, else the visits left afterwards
matchVisit(call) ==
    LET frame == Head(call.stack)
        node == nodeAt(treeOf(call), frame.keys)
    IN  IF frame.segments = <<>>
        THEN [hit |-> actionsMatch(node, call.act), stack |-> Tail(call.stack)]
        ELSE IF tripleWildcardHit(node, call.act)
             THEN [hit |-> TRUE, stack |-> Tail(call.stack)]
             ELSE [hit |-> FALSE, stack |-> childFrames(node, frame) \o Tail(call.stack)]

\* a visit of match that hands the * child the segments it was given itself,
\* not the segments after the head
matchStepped_sameSegments(call) ==
    LET v == matchVisit(call)
        frame == Head(call.stack)
        again == IF frame.segments # <<>> /\ has(nodeAt(treeOf(call), frame.keys), Star)
                 THEN <<Frame(Append(frame.keys, Star), frame.segments)>>
                 ELSE <<>>
    IN  IF v.hit
        THEN [call EXCEPT !.pc = "done", !.stack = <<>>, !.ret = <<call.pc = "allow">>]
        ELSE IF again \o v.stack # <<>>
             THEN [call EXCEPT !.stack = again \o v.stack]
             ELSE IF call.pc = "deny"
                  THEN [call EXCEPT !.pc = "allow",
                                    !.stack = <<Frame(<<>>, split(call.path, ColonColon))>>]
                  ELSE [call EXCEPT !.pc = "done", !.stack = <<>>, !.ret = <<FALSE>>]

\* the call after one visit of match: a hit ends the walk of the tree with
\* true, no visit left ends it with false; isAllowed returns false on a deny
\* match, goes on to the allow tree otherwise, and returns what that gives
matchStepped(call) ==
    LET v == matchVisit(call)
    IN  IF v.hit
        THEN [call EXCEPT !.pc = "done", !.stack = <<>>, !.ret = <<call.pc = "allow">>]
        ELSE IF v.stack # <<>>
             THEN [call EXCEPT !.stack = v.stack]
             ELSE IF call.pc = "deny"
                  THEN [call EXCEPT !.pc = "allow",
                                    !.stack = <<Frame(<<>>, split(call.path, ColonColon))>>]
                  ELSE [call EXCEPT !.pc = "done", !.stack = <<>>, !.ret = <<FALSE>>]

\* a visit of match that, on a hit in the allow tree, stores the query as a
\* rule of its own so that the next lookup finds it at once
MatchStep_memo(c) ==
    /\ Walking(c)
    /\ calls[c].op = "isAllowed"
    /\ calls' = [calls EXCEPT ![c] = matchStepped(calls[c])]
    /\ allowTree' = IF matchVisit(calls[c]).hit /\ calls[c].pc = "allow"
                    THEN insert(allowTree, split(calls[c].path, ColonColon), calls[c].act)
                    ELSE allowTree
    /\ UNCHANGED <<permissions, denyTree, resourcePath, action,
                   decision, explanation>>

MatchStep(c) ==
    /\ Walking(c)
    /\ calls[c].op = "isAllowed"
    /\ calls' = [calls EXCEPT ![c] = matchStepped(calls[c])]
    /\ UNCHANGED <<permissions, allowTree, denyTree, resourcePath, action,
                   decision, explanation>>

\* the results one visit of matchWithDetails pushes at the node
detailsVisit(call) ==
    LET frame == Head(call.stack)
        node == nodeAt(treeOf(call), frame.keys)
    IN  IF frame.segments = <<>>
        THEN actionResults(node, call.act, frame.keys)
        ELSE IF has(node, TripleStar)
             THEN actionResults(node.children[TripleStar], call.act,
                                Append(frame.keys, TripleStar))
             ELSE <<>>

\* the visits left after one visit of matchWithDetails
detailsStack(call) ==
    LET frame == Head(call.stack)
        node == nodeAt(treeOf(call), frame.keys)
    IN  IF frame.segments = <<>>
        THEN Tail(call.stack)
        ELSE childFrames(node, frame) \o Tail(call.stack)

\* the call after one visit of matchWithDetails: explain walks the allow
\* tree, then the deny tree, and returns the explanation built from both
detailsStepped(call) ==
    LET found == detailsVisit(call)
        left == detailsStack(call)
        allowMatches == IF call.pc = "allow" THEN call.allowMatches \o found
                        ELSE call.allowMatches
        denyMatches == IF call.pc = "deny" THEN call.denyMatches \o found
                       ELSE call.denyMatches
    IN  IF left # <<>>
        THEN [call EXCEPT !.stack = left, !.allowMatches = allowMatches,
                          !.denyMatches = denyMatches]
        ELSE IF call.pc = "allow"
             THEN [call EXCEPT !.pc = "deny", !.allowMatches = allowMatches,
                               !.stack = <<Frame(<<>>, split(call.path, ColonColon))>>]
             ELSE [call EXCEPT !.pc = "done", !.stack = <<>>,
                               !.denyMatches = denyMatches,
                               !.ret = <<explainFrom(allowMatches, denyMatches,
                                                     call.path, call.act)>>]

\* a visit of matchWithDetails that creates the exact child it looks up when
\* the node has none
DetailsStep_vivify(c) ==
    /\ Walking(c)
    /\ calls[c].op = "explain"
    /\ calls' = [calls EXCEPT ![c] = detailsStepped(calls[c])]
    /\ LET frame == Head(calls[c].stack)
           grown == IF frame.segments = <<>> THEN frame.keys
                    ELSE Append(frame.keys, Head(frame.segments))
       IN  IF calls[c].pc = "allow"
           THEN allowTree' = insert(allowTree, grown, Star) /\ denyTree' = denyTree
           ELSE denyTree' = insert(denyTree, grown, Star) /\ allowTree' = allowTree
    /\ UNCHANGED <<permissions, resourcePath, action, decision, explanation>>

DetailsStep(c) ==
    /\ Walking(c)
    /\ calls[c].op = "explain"
    /\ calls' = [calls EXCEPT ![c] = detailsStepped(calls[c])]
    /\ UNCHANGED <<permissions, allowTree, denyTree, resourcePath, action,
                   decision, explanation>>

NextSteps ==
    \E c \in Callers :
        \/ CallIsAllowed(c)
        \/ CallExplain(c)
        \/ CallExplainPermission(c)
        \/ MatchStep(c)
        \/ DetailsStep(c)

SpecSteps == InitSteps /\ [][NextSteps]_vars

-----------------------------------------------------------------------------
(* The matcher constructed from rule strings the parser has to cope with:  *)
(* no ";;", more than one ";;", an empty path, an empty segment, a lone    *)
(* "!", a segment that only looks like a wildcard. The calls are those of  *)
(* Spec.                                                                   *)

ParseRulePool ==
    { <<"a", ":", ":", "b">>,                                 \* a::b
      <<"a", ";", ";", "r", ";", ";", "w">>,                  \* a;;r;;w
      <<";", ";", "r">>,                                      \* ;;r
      <<>>,                                                   \* the empty string
      <<"!">>,                                                \* !
      <<"a", ":", ":", "*", "*", ";", ";", "r">>,             \* a::**;;r
      <<"!", "a", ":", ":", ":", ":", "b", ";", ";", "w">>,   \* !a::::b;;w
      <<"a", ":", ":", "*", ";", ";", "w">> }                 \* a::*;;w

ParseRuleLists == UNION { [1..n -> ParseRulePool] : n \in 0..MaxRules }

ParsePaths ==
    { <<>>,                                   \* the empty string
      <<"a">>,
      <<"a", ":", ":", "b">>,
      <<"a", ":", ":", "*", "*">>,            \* a::**
      <<"a", ":", ":", ":", ":", "b">> }      \* a::::b

ParseActions == { <<"r">>, <<"w">>, <<"r", ";", ";", "w">> }

InitParse ==
    /\ permissions \in ParseRuleLists
    /\ allowTree = constructor(permissions).allowTree
    /\ denyTree = constructor(permissions).denyTree
    /\ resourcePath \in ParsePaths
    /\ action \in ParseActions
    /\ decision = <<>>
    /\ explanation = <<>>
    /\ calls = <<>>

SpecParse == InitParse /\ [][Next]_vars

-----------------------------------------------------------------------------
(* The matcher asked with the wildcard tokens on the query side: resource  *)
(* paths that carry a * or a *** segment and the requested action *, over  *)
(* rules that are literal, that end in a wildcard, and that carry a ***    *)
(* before their last segment. The calls are those of Spec.                 *)

WildRulePool ==
    { <<"a", ":", ":", "b", ";", ";", "r">>,                                 \* a::b;;r
      <<"a", ":", ":", "*", "*", "*", ":", ":", "b", ";", ";", "r">>,        \* a::***::b;;r
      <<"a", ":", ":", "*", ";", ";", "w">>,                                 \* a::*;;w
      <<"a", ":", ":", "*", "*", "*", ";", ";", "w">>,                       \* a::***;;w
      <<"!", "a", ":", ":", "b", ";", ";", "*">> }                           \* !a::b;;*

WildRuleLists == UNION { [1..n -> WildRulePool] : n \in 0..MaxRules }

WildPaths ==
    { <<"a", ":", ":", "b">>,                                  \* a::b
      <<"a", ":", ":", "*">>,                                  \* a::*
      <<"a", ":", ":", "*", "*", "*">>,                        \* a::***
      <<"*", ":", ":", "b">>,                                  \* *::b
      <<"a", ":", ":", "a", ":", ":", "b">>,                   \* a::a::b
      <<"a", ":", ":", "*", ":", ":", "b">>,                   \* a::*::b
      <<"a", ":", ":", "*", "*", "*", ":", ":", "b">>,         \* a::***::b
      <<"a", ":", ":", "*", "*", "*", ":", ":", "a">> }        \* a::***::a

WildActions == { <<"r">>, <<"w">>, Star }

InitWild ==
    /\ permissions \in WildRuleLists
    /\ allowTree = constructor(permissions).allowTree
    /\ denyTree = constructor(permissions).denyTree
    /\ resourcePath \in WildPaths
    /\ action \in WildActions
    /\ decision = <<>>
    /\ explanation = <<>>
    /\ calls = <<>>

SpecWild == InitWild /\ [][Next]_vars

-----------------------------------------------------------------------------
(* What the rule list says, rule by rule, without any trie: the reference  *)
(* the claims compare the matcher with.                                    *)

Range(list) == { list[i] : i \in 1..Len(list) }

\* the (sign, path segments, action) triple the constructor's parse gives
Parsed(perm) ==
    [deny |-> isDenied(perm), segments |-> segmentsOf(perm), action |-> actionOf(perm)]

ParsedPool == [perm \in RulePool \cup ParseRulePool \cup WildRulePool |-> Parsed(perm)]

\* the triples of the constructed rule list
Rules == { ParsedPool[permissions[i]] : i \in 1..Len(permissions) }

AllowRules == { rule \in Rules : ~rule.deny }
DenyRules == { rule \in Rules : rule.deny }

\* the segments of the query
QuerySegments == split(resourcePath, ColonColon)

\* rule segments against as many query segments, one for one
SegmentsMatch(ruleSegs, querySegs) ==
    /\ Len(ruleSegs) = Len(querySegs)
    /\ \A i \in 1..Len(ruleSegs) : ruleSegs[i] = querySegs[i] \/ ruleSegs[i] = Star

\* a rule path ending in ***: its prefix matches and a segment is left over
SuffixMatch(ruleSegs, querySegs) ==
    /\ Len(ruleSegs) >= 1
    /\ ruleSegs[Len(ruleSegs)] = TripleStar
    /\ Len(querySegs) >= Len(ruleSegs)
    /\ SegmentsMatch(SubSeq(ruleSegs, 1, Len(ruleSegs) - 1),
                     SubSeq(querySegs, 1, Len(ruleSegs) - 1))

PathMatches(ruleSegs, querySegs) ==
    SegmentsMatch(ruleSegs, querySegs) \/ SuffixMatch(ruleSegs, querySegs)

RuleMatches(rule, querySegs, act) ==
    /\ rule.action = Star \/ rule.action = act
    /\ PathMatches(rule.segments, querySegs)

MatchingAllowRules == { rule \in AllowRules : RuleMatches(rule, QuerySegments, action) }
MatchingDenyRules == { rule \in DenyRules : RuleMatches(rule, QuerySegments, action) }

\* the text explain reports for a rule
RuleText(rule) ==
    (IF rule.deny THEN Bang ELSE <<>>)
    \o join(rule.segments, ColonColon) \o SemiSemi \o rule.action

Decided == decision # <<>>
Explained == explanation # <<>>

-----------------------------------------------------------------------------
(* Claims *)

\* C1. Deny overrides allow: when at least one deny rule of the list matches
\* the query, isAllowed returns false, however many allow rules match too.
C1_DenyOverridesAllow ==
    (Decided /\ MatchingDenyRules # {}) => decision[1] = FALSE

\* isAllowed has returned for a query that a deny rule and an allow rule match
C1_Witness ==
    /\ Decided
    /\ MatchingDenyRules # {}
    /\ MatchingAllowRules # {}
    /\ decision[1] = FALSE

\* C2. Default deny: when no allow rule and no deny rule of the list matches
\* the query, isAllowed returns false; the empty rule list denies every query.
C2_DefaultDeny ==
    /\ (Decided /\ MatchingAllowRules = {} /\ MatchingDenyRules = {})
          => decision[1] = FALSE
    /\ (Decided /\ permissions = <<>>) => decision[1] = FALSE

\* isAllowed has returned for a query that none of two rules matches
C2_Witness ==
    /\ Decided
    /\ Len(permissions) = 2
    /\ AllowRules # {}
    /\ MatchingAllowRules = {}
    /\ MatchingDenyRules = {}
    /\ decision[1] = FALSE

\* the rule texts the last explain reported, allow and deny (deny with "!")
Reported ==
    Range(explanation[1].matchedAllowRules) \cup Range(explanation[1].matchedDenyRules)

\* the rules whose path ends in ***
TripleRules == { rule \in Rules : rule.segments[Len(rule.segments)] = TripleStar }

\* the query has the rule's action, its first n segments match the n segments
\* before the final ***, and it has at least one segment more
Covered(rule) ==
    LET n == Len(rule.segments) - 1
    IN  /\ action = rule.action
        /\ Len(QuerySegments) >= n + 1
        /\ SegmentsMatch(SubSeq(rule.segments, 1, n), SubSeq(QuerySegments, 1, n))

\* the query stops at the *** position or before it
TooShort(rule) == Len(QuerySegments) <= Len(rule.segments) - 1

\* C3. Triple-wildcard suffix: a rule P::*** with action A matches every query
\* with action A whose first n segments match P and that has at least n+1
\* segments, and matches no query of n or fewer segments. A match shows as the
\* rule's text in explain's lists, as a false decision for a deny rule, and as
\* the decision itself when the rule is the only rule of the list.
C3_TripleWildcardSuffix ==
    \A rule \in TripleRules :
        /\ Explained =>
              /\ Covered(rule) => RuleText(rule) \in Reported
              /\ TooShort(rule) => RuleText(rule) \notin Reported
        /\ (Decided /\ rule.deny /\ Covered(rule)) => decision[1] = FALSE
        /\ (Decided /\ ~rule.deny /\ Rules = {rule}) =>
              /\ Covered(rule) => decision[1] = TRUE
              /\ TooShort(rule) => decision[1] = FALSE

\* a lone allow rule P::*** has matched a query two segments longer than P
C3_Witness ==
    /\ Decided
    /\ Explained
    /\ \E rule \in TripleRules :
          /\ ~rule.deny
          /\ Rules = {rule}
          /\ Covered(rule)
          /\ Len(QuerySegments) >= Len(rule.segments) + 1
          /\ decision[1] = TRUE
          /\ RuleText(rule) \in Reported

\* the rules literal::*::literal
SingleWildcardRules ==
    { rule \in Rules :
        /\ Len(rule.segments) = 3
        /\ rule.segments[2] = Star
        /\ rule.segments[1] \notin {Star, TripleStar}
        /\ rule.segments[3] \notin {Star, TripleStar} }

\* the query has three segments, the rule's first and third around any second
ExactlyOne(rule) ==
    /\ Len(QuerySegments) = 3
    /\ QuerySegments[1] = rule.segments[1]
    /\ QuerySegments[3] = rule.segments[3]
    /\ rule.action = Star \/ rule.action = action

\* C4. Single-wildcard exactness: a rule a::*::c;;read matches a::x::c with
\* action read for every x and matches neither a longer nor a shorter query
\* (here for every rule of that form, the literals a, b and the action r
\* standing for a, c and read).
C4_SingleWildcardExactness ==
    \A rule \in SingleWildcardRules :
        /\ Explained => (RuleText(rule) \in Reported <=> ExactlyOne(rule))
        /\ (Decided /\ ~rule.deny /\ Rules = {rule}) => (decision[1] <=> ExactlyOne(rule))

\* a lone rule a::*::b;;r has matched a three-segment query
C4_Witness ==
    /\ Decided
    /\ Explained
    /\ \E rule \in SingleWildcardRules :
          /\ ~rule.deny
          /\ Rules = {rule}
          /\ ExactlyOne(rule)
          /\ decision[1] = TRUE
          /\ RuleText(rule) \in Reported

\* the rules whose action is *
StarActionRules == { rule \in Rules : rule.action = Star }

\* C5. Action wildcard: a rule with action * matches a query with any requested
\* action whenever its path matches the query's path: an allow rule then
\* grants the action unless a deny rule matches, a deny rule denies it.
C5_ActionWildcard ==
    \A rule \in StarActionRules :
        PathMatches(rule.segments, QuerySegments) =>
            /\ Explained => RuleText(rule) \in Reported
            /\ (Decided /\ rule.deny) => decision[1] = FALSE
            /\ (Decided /\ ~rule.deny /\ MatchingDenyRules = {}) => decision[1] = TRUE

\* an allow rule with action * has granted the action w
C5_Witness ==
    /\ Decided
    /\ action = <<"w">>
    /\ \E rule \in StarActionRules :
          /\ ~rule.deny
          /\ PathMatches(rule.segments, QuerySegments)
    /\ MatchingAllowRules \subseteq StarActionRules
    /\ decision[1] = TRUE

\* C6. Explanation consistency: for one rule list and one query, the value
\* isAllowed returned equals the allowed field explain returned.
C6_ExplanationConsistency ==
    (Decided /\ Explained) => decision[1] = explanation[1].allowed

\* both have returned "allowed" for a query a rule ending in *** matches
C6_Witness ==
    /\ Decided
    /\ Explained
    /\ decision[1] = TRUE
    /\ explanation[1].allowed = TRUE
    /\ \E rule \in MatchingAllowRules : rule \in TripleRules

\* the orders a list of n rules can be given in
Orders(n) == { f \in [1..n -> 1..n] : \A i, j \in 1..n : f[i] = f[j] => i = j }

Reordered(f) == [i \in 1..Len(permissions) |-> permissions[f[i]]]

\* C7. Order-independent construction: a matcher constructed from the same
\* rules in any other order returns, for the query, what isAllowed returned.
C7_OrderIndependent ==
    Decided =>
        \A f \in Orders(Len(permissions)) :
            isAllowed(constructor(Reordered(f)), resourcePath, action) = decision[1]

\* isAllowed has allowed a query under two different rules that share the
\* first trie key
C7_Witness ==
    /\ Decided
    /\ Len(permissions) = 2
    /\ permissions[1] # permissions[2]
    /\ isDenied(permissions[1]) = isDenied(permissions[2])
    /\ segmentsOf(permissions[1])[1] = segmentsOf(permissions[2])[1]
    /\ decision[1] = TRUE

\* C8. explain surfaces every matching rule and only matching rules: the texts
\* in matchedAllowRules are exactly the path;;action texts of the allow rules
\* that match the query, those in matchedDenyRules exactly the texts of the
\* matching deny rules with "!" in front.
C8_ExplainSurfacesAll ==
    Explained =>
        /\ Range(explanation[1].matchedAllowRules)
              = { RuleText(rule) : rule \in MatchingAllowRules }
        /\ Range(explanation[1].matchedDenyRules)
              = { RuleText(rule) : rule \in MatchingDenyRules }

\* explain has reported two allow rules, one under the exact child and one
\* under the * child of the same node
C8_Witness ==
    /\ Explained
    /\ \E r1, r2 \in MatchingAllowRules :
          /\ Len(r1.segments) = 2
          /\ Len(r2.segments) = 2
          /\ r1.segments[1] = r2.segments[1]
          /\ r1.segments[2] = QuerySegments[2]
          /\ r2.segments[2] = Star
          /\ {RuleText(r1), RuleText(r2)} \subseteq Range(explanation[1].matchedAllowRules)

\* C9. explain, deny with allow present: when the query matches a deny rule
\* and an allow rule, explain returns allowed = false, both lists non-empty,
\* and the reason that lists the matched deny rules, then the matched allow
\* rules, and says that deny rules take precedence.
C9_ExplainDenyWithAllow ==
    (Explained /\ MatchingDenyRules # {} /\ MatchingAllowRules # {}) =>
        LET e == explanation[1]
        IN  /\ e.allowed = FALSE
            /\ e.matchedDenyRules # <<>>
            /\ e.matchedAllowRules # <<>>
            /\ \A rule \in MatchingDenyRules : RuleText(rule) \in Range(e.matchedDenyRules)
            /\ \A rule \in MatchingAllowRules : RuleText(rule) \in Range(e.matchedAllowRules)
            /\ e.reason = <<"Access denied by exclusion rule(s): ",
                            join(e.matchedDenyRules, CommaSpace),
                            ". Although allow rule(s) matched: ",
                            join(e.matchedAllowRules, CommaSpace),
                            ", deny rules take precedence.">>

\* explain has returned for a query that a deny rule and an allow rule match
C9_Witness ==
    /\ Explained
    /\ MatchingDenyRules # {}
    /\ MatchingAllowRules # {}
    /\ explanation[1].allowed = FALSE
    /\ Len(explanation[1].reason) = 5

\* C10. explain, allowed case: allowed is true exactly when matchedDenyRules is
\* empty and matchedAllowRules is not, and the reason is then the "Access
\* allowed by rule(s)" message listing the matched allow rules.
C10_ExplainAllowed ==
    Explained =>
        LET e == explanation[1]
        IN  /\ e.allowed = TRUE <=>
                  (e.matchedDenyRules = <<>> /\ e.matchedAllowRules # <<>>)
            /\ e.allowed = TRUE =>
                  e.reason = <<"Access allowed by rule(s): ",
                               join(e.matchedAllowRules, CommaSpace),
                               ".">>

\* explain has allowed a query on the strength of two allow rules
C10_Witness ==
    /\ Explained
    /\ explanation[1].allowed = TRUE
    /\ Len(explanation[1].matchedAllowRules) = 2
    /\ explanation[1].matchedDenyRules = <<>>

\* C11. explain, no-match case: when the query matches no allow rule and no
\* deny rule, explain returns allowed = false, both lists empty and the "no
\* matching allow rules found" reason naming the resource path and the action;
\* that reason is given in no other case.
NoMatchReason ==
    <<"Access denied: no matching allow rules found for resource \"",
      resourcePath,
      "\" and action \"",
      action,
      "\".">>

C11_ExplainNoMatch ==
    Explained =>
        LET e == explanation[1]
            noMatch == MatchingAllowRules = {} /\ MatchingDenyRules = {}
        IN  /\ noMatch =>
                  /\ e.allowed = FALSE
                  /\ e.matchedAllowRules = <<>>
                  /\ e.matchedDenyRules = <<>>
                  /\ e.reason = NoMatchReason
            /\ e.reason[1] = NoMatchReason[1] => noMatch

\* explain has returned for a query that none of two rules matches
C11_Witness ==
    /\ Explained
    /\ Len(permissions) = 2
    /\ AllowRules # {}
    /\ DenyRules # {}
    /\ MatchingAllowRules = {}
    /\ MatchingDenyRules = {}
    /\ explanation[1].reason = NoMatchReason

\* the path;;action texts of the rules a tree stores: one for every action
\* of every node, under the node's keys from the root
RECURSIVE StoredTexts(_, _)
StoredTexts(node, keys) ==
    { join(keys, ColonColon) \o SemiSemi \o a : a \in node.actions }
    \cup UNION { StoredTexts(node.children[k], Append(keys, k)) : k \in DOMAIN node.children }

\* C12. Every entry of matchedDenyRules starts with "!" and is, after the "!",
\* the path;;action of a rule stored in the deny tree; every entry of
\* matchedAllowRules is the path;;action of a rule stored in the allow tree.
C12_SignRestored ==
    Explained =>
        /\ \A t \in Range(explanation[1].matchedDenyRules) :
              /\ startsWith(t, Bang)
              /\ slice(t, 1) \in StoredTexts(denyTree, <<>>)
        /\ \A t \in Range(explanation[1].matchedAllowRules) :
              /\ t \in StoredTexts(allowTree, <<>>)
              /\ ~startsWith(t, Bang)

\* explain has reported a deny rule and an allow rule that are not stored in
\* each other's tree
C12_Witness ==
    /\ Explained
    /\ \E t \in Range(explanation[1].matchedDenyRules) :
          slice(t, 1) \notin StoredTexts(allowTree, <<>>)
    /\ \E t \in Range(explanation[1].matchedAllowRules) :
          t \notin StoredTexts(denyTree, <<>>)

\* s holds sub somewhere
Contains(s, sub) ==
    \E i \in 1..(Len(s) - Len(sub) + 1) : SubSeq(s, i, i + Len(sub) - 1) = sub

\* C13. explain's path field is the resourcePath split on "::": segments free
\* of "::" that give the resourcePath back when joined with "::"; its action
\* field is the requested action; whatever the decision is.
C13_PathAndAction ==
    Explained =>
        LET e == explanation[1]
        IN  /\ join(e.path, ColonColon) = resourcePath
            /\ \A i \in 1..Len(e.path) : ~Contains(e.path[i], ColonColon)
            /\ Len(e.path) >= 1
            /\ e.action = action

\* explain has denied a three-segment query and carries its three segments
C13_Witness ==
    /\ Explained
    /\ explanation[1].allowed = FALSE
    /\ Len(explanation[1].path) = 3
    /\ explanation[1].path[1] # explanation[1].path[2]
    /\ explanation[1].action = <<"w">>


\* the matcher as the constructor left it
Constructed == constructor(permissions)

\* C14: read-only after construction. No step of any isAllowed, explain or
\* explainPermission call, in whatever order the calls of the callers are
\* made and interleaved, changes a node, a child key or an action of the
\* allow tree or of the deny tree.
C14_ReadOnly == [][allowTree' = allowTree /\ denyTree' = denyTree]_vars

\* calls of both kinds have walked the trees and returned
C14_Witness ==
    /\ \E c \in Callers : calls[c].op = "isAllowed" /\ calls[c].pc = "done"
    /\ \E c \in Callers : calls[c].op = "explain" /\ calls[c].pc = "done"
    /\ allowTree = Constructed.allowTree
    /\ denyTree = Constructed.denyTree

\* what a returned call returns when it runs alone on the constructed matcher
Alone(call) ==
    IF call.op = "isAllowed"
    THEN isAllowed(Constructed, call.path, call.act)
    ELSE explain(Constructed, call.path, call.act)

\* C15: concurrent read safety. Whatever the interleaving of the node visits
\* of the callers' isAllowed and explain calls, with no locking, each call
\* returns what the same query returns when it runs alone.
C15_ConcurrentReads ==
    \A c \in Callers : calls[c].pc = "done" => calls[c].ret = <<Alone(calls[c])>>

\* an isAllowed call that found its allow rule has returned while an explain
\* call of another caller is halfway, its allow matches collected and its
\* deny walk still to finish
C15_Witness ==
    \E c, d \in Callers :
        /\ calls[c].op = "isAllowed" /\ calls[c].pc = "done" /\ calls[c].ret = <<TRUE>>
        /\ calls[d].op = "explain" /\ calls[d].pc = "deny" /\ calls[d].allowMatches # <<>>


\* a rule string without ";;"
NoSeparator(perm) == ~Contains(perm, SemiSemi)

\* the rule list with ";;*" written out on every rule that has no ";;"
Twins ==
    [i \in 1..Len(permissions) |->
        IF NoSeparator(permissions[i]) THEN permissions[i] \o SemiSemi \o Star
        ELSE permissions[i]]

\* the allow rules without ";;" whose path, the whole text, matches the query
MatchingBareAllowRules ==
    { i \in 1..Len(permissions) :
        /\ NoSeparator(permissions[i])
        /\ ~isDenied(permissions[i])
        /\ PathMatches(split(permissions[i], ColonColon), QuerySegments) }

\* C16: a rule string with no ";;" is stored with action "*". The trees are
\* those of the list with ";;*" written out, isAllowed and explain answer as
\* they do on that list, and an allow rule without ";;" whose path matches
\* allows the query for every requested action when no deny rule matches.
C16_DefaultAction ==
    /\ matcher = constructor(Twins)
    /\ Decided => decision[1] = isAllowed(constructor(Twins), resourcePath, action)
    /\ Explained => explanation[1] = explain(constructor(Twins), resourcePath, action)
    /\ (Decided /\ MatchingBareAllowRules # {} /\ MatchingDenyRules = {})
          => decision[1] = TRUE

\* the rule a::b alone has allowed a::b for an action no rule names
C16_Witness ==
    /\ Decided
    /\ permissions = << <<"a", ":", ":", "b">> >>
    /\ resourcePath = <<"a", ":", ":", "b">>
    /\ action = <<"r", ";", ";", "w">>
    /\ decision[1] = TRUE


\* where sub first occurs in s (0 when it does not)
FirstIndex(s, sub) ==
    LET at == { i \in 1..(Len(s) - Len(sub) + 1) : SubSeq(s, i, i + Len(sub) - 1) = sub }
    IN  IF at = {} THEN 0 ELSE CHOOSE i \in at : \A j \in at : i <= j

\* the text before and the text after the first occurrence of sep in s
BeforeFirst(s, sep) == SubSeq(s, 1, FirstIndex(s, sep) - 1)
AfterFirst(s, sep) == SubSeq(s, FirstIndex(s, sep) + Len(sep), Len(s))

\* the tree a rule string is stored in
TreeOfRule(perm) == IF isDenied(perm) THEN denyTree ELSE allowTree

\* the actions stored at the end of a path of segments (none when no rule
\* stored that path)
RECURSIVE StoredActions(_, _)
StoredActions(node, segments) ==
    IF segments = <<>> THEN node.actions
    ELSE IF has(node, Head(segments))
         THEN StoredActions(node.children[Head(segments)], Tail(segments))
         ELSE {}

\* C17: the parser splits a rule once, on the first ";;". For every rule with
\* a ";;" the path stored is the text before the first ";;" and the action
\* stored with it is the whole text after the first ";;" (for a;;r;;w the
\* action r;;w).
C17_SplitOnce ==
    \A i \in 1..Len(permissions) :
        ~NoSeparator(permissions[i]) =>
            AfterFirst(clean(permissions[i]), SemiSemi)
                \in StoredActions(TreeOfRule(permissions[i]),
                                  split(BeforeFirst(clean(permissions[i]), SemiSemi),
                                        ColonColon))


\* the path text of a rule string: what is left of the "!" and of the
\* first ";;"
PathText(perm) ==
    IF NoSeparator(perm) THEN clean(perm) ELSE BeforeFirst(clean(perm), SemiSemi)

\* the rules of the list with an empty path
EmptyPathRules == { i \in 1..Len(permissions) : PathText(permissions[i]) = <<>> }

\* C18: a rule with an empty path is inserted at the root of its tree with
\* zero segments, its action among the root's own actions, and no query that
\* isAllowed or explain decomposes into one or more segments matches it:
\* explain reports no such rule, and isAllowed allows nothing when every
\* allow rule has an empty path.
C18_EmptyPathAtRoot ==
    /\ \A i \in EmptyPathRules :
          actionOf(permissions[i]) \in TreeOfRule(permissions[i]).actions
    /\ (Explained /\ Len(explanation[1].path) >= 1) =>
          \A i \in EmptyPathRules : RuleText(Parsed(permissions[i])) \notin Reported
    /\ (Decided /\ Len(QuerySegments) >= 1
          /\ \A i \in 1..Len(permissions) :
                isDenied(permissions[i]) \/ i \in EmptyPathRules) =>
          decision[1] = FALSE


\* C19: construction never fails. For every rule list, with empty paths,
\* rules without ";;", repeated ";;", empty segments and a lone "!", no rule
\* makes the constructor raise, every rule is stored in the tree of its sign,
\* and isAllowed and explain return a result for every query: a boolean, and
\* an explanation with a boolean verdict, a reason and the query's segments.
C19_ConstructionTotal ==
    /\ \A i \in 1..Len(permissions) :
          /\ ~throws(permissions[i])
          /\ actionOf(permissions[i])
                \in StoredActions(TreeOfRule(permissions[i]), segmentsOf(permissions[i]))
    /\ Decided => decision[1] \in BOOLEAN
    /\ Explained =>
          /\ explanation[1].allowed \in BOOLEAN
          /\ explanation[1].reason # <<>>
          /\ Len(explanation[1].path) >= 1

\* isAllowed and explain have both returned on the matcher built from the
\* empty string and a lone "!"
C19_Witness ==
    /\ Decided
    /\ Explained
    /\ permissions = << <<>>, <<"!">> >>

\* a rule segment that is neither * nor ***
Literal(segment) == segment \notin {Star, TripleStar}

\* every literal segment of the rule equals the query's segment at its place
LiteralsEqual(rule) ==
    \A i \in 1..Len(rule.segments) :
        Literal(rule.segments[i]) =>
            i <= Len(QuerySegments) /\ QuerySegments[i] = rule.segments[i]

\* C20: only the exact segments * and *** are wildcards. A rule that explain
\* reports has every other segment, ** included, equal to the query's
\* segment at the same place, and isAllowed allows a query only when some
\* allow rule has.
C20_OnlyExactWildcards ==
    /\ Explained =>
          \A rule \in Rules : RuleText(rule) \in Reported => LiteralsEqual(rule)
    /\ (Decided /\ decision[1] = TRUE) =>
          \E rule \in AllowRules : LiteralsEqual(rule)

\* the rule a::**;;r has been matched by the query a::** and reported
C20_Witness ==
    /\ Decided
    /\ Explained
    /\ permissions = << <<"a", ":", ":", "*", "*", ";", ";", "r">> >>
    /\ resourcePath = <<"a", ":", ":", "*", "*">>
    /\ decision[1] = TRUE
    /\ Reported = { <<"a", ":", ":", "*", "*", ";", ";", "r">> }

\* C21: isAllowed agrees with a flat scan of the rule list. It returns true
\* exactly when no deny rule of the list matches the query and at least one
\* allow rule does, a rule matching when its action is * or the requested
\* action and its path matches segment for segment (equal or *) or ends in a
\* *** reached with at least one query segment left.
C21_FlatScan ==
    Decided => (decision[1] = (MatchingDenyRules = {} /\ MatchingAllowRules # {}))

\* isAllowed has allowed a query that only an allow rule ending in ***
\* matches, two segments beyond the ***, next to a deny rule that does not
C21_Witness ==
    /\ Decided
    /\ decision[1] = TRUE
    /\ DenyRules # {}
    /\ \A rule \in MatchingAllowRules :
          /\ rule.segments[Len(rule.segments)] = TripleStar
          /\ Len(QuerySegments) >= Len(rule.segments) + 2

\* the rule list has no *** segment
NoTripleStar ==
    \A rule \in Rules : \A i \in 1..Len(rule.segments) : rule.segments[i] # TripleStar

\* C22: without *** the depth of a rule is a hard bound both ways. In a rule
\* list with no *** segment, every rule explain reports has exactly as many
\* segments as the query, and isAllowed allows a query only when some allow
\* rule has exactly as many segments as the query.
C22_DepthBound ==
    NoTripleStar =>
        /\ Explained =>
              \A rule \in Rules :
                  RuleText(rule) \in Reported => Len(rule.segments) = Len(QuerySegments)
        /\ (Decided /\ decision[1] = TRUE) =>
              \E rule \in AllowRules : Len(rule.segments) = Len(QuerySegments)

\* the rule a::*;;r alone: a query of three segments under a has been denied
\* and explained with no rule reported
C22_Witness ==
    /\ Decided
    /\ Explained
    /\ permissions = << <<"a", ":", ":", "*", ";", ";", "r">> >>
    /\ Len(QuerySegments) = 3
    /\ QuerySegments[1] = <<"a">>
    /\ action = <<"r">>
    /\ decision[1] = FALSE
    /\ Reported = {}

\* the deny tree matches the query of the call
DenyMatches(call) == match(denyTree, split(call.path, ColonColon), call.act)

\* C23: isAllowed evaluates the deny tree before the allow tree. A call
\* starts in the deny tree; it moves on to the allow tree only from the deny
\* tree and only when the deny match is false; and when the deny tree
\* matches, the call goes from the deny tree straight to its return, with
\* result false, the allow tree never visited.
C23_DenyBeforeAllow ==
    [][\A c \in Callers :
          /\ (Free(c) /\ calls'[c].op = "isAllowed" /\ calls'[c].pc # calls[c].pc)
                => calls'[c].pc = "deny"
          /\ (calls'[c].op = "isAllowed" /\ calls'[c].pc = "allow" /\ calls[c].pc # "allow")
                => /\ calls[c].op = "isAllowed"
                   /\ calls[c].pc = "deny"
                   /\ ~DenyMatches(calls[c])
          /\ (calls[c].op = "isAllowed" /\ calls[c].pc = "deny" /\ DenyMatches(calls[c]))
                => /\ calls'[c].pc \in {"deny", "done"}
                   /\ calls'[c].pc = "done" => calls'[c].ret = <<FALSE>>]_vars

\* an isAllowed call has returned false on a deny match for a query the allow
\* tree matches too
C23_Witness ==
    \E c \in Callers :
        /\ calls[c].op = "isAllowed"
        /\ calls[c].pc = "done"
        /\ calls[c].ret = <<FALSE>>
        /\ DenyMatches(calls[c])
        /\ match(allowTree, split(calls[c].path, ColonColon), calls[c].act)

\* the key paths of the nodes of a tree, the root's empty path included
RECURSIVE KeyPaths(_)
KeyPaths(node) ==
    {<<>>} \cup UNION { { <<key>> \o path : path \in KeyPaths(node.children[key]) } :
                         key \in DOMAIN node.children }

\* the prefixes of a rule path, the empty one and the path itself included
Prefixes(segments) == { SubSeq(segments, 1, n) : n \in 0..Len(segments) }

\* the tree is the one the set of rules determines: its key paths are the
\* prefixes of the rule paths and each node holds the actions of the rules
\* whose path ends there
DeterminedBy(node, rules) ==
    /\ KeyPaths(node) = {<<>>} \cup UNION { Prefixes(rule.segments) : rule \in rules }
    /\ \A path \in KeyPaths(node) :
          StoredActions(node, path)
              = { rule.action : rule \in { r \in rules : r.segments = path } }

\* C24: the trie built by construction is determined by the set of parsed
\* rules alone. In each tree the key paths of the nodes are exactly the
\* prefixes of the inserted rule paths, * and *** being keys like any other,
\* and the actions of a node are exactly the actions of the rules whose path
\* ends at it; the order of the list plays no part.
C24_TrieOfRuleSet ==
    /\ DeterminedBy(allowTree, AllowRules)
    /\ DeterminedBy(denyTree, DenyRules)
    /\ \A f \in Orders(Len(permissions)) : constructor(Reordered(f)) = matcher

\* the rules ;;r and the empty string, in this order, end at the same node,
\* which holds the actions of both
C24_Witness ==
    /\ permissions = << <<";", ";", "r">>, <<>> >>
    /\ KeyPaths(allowTree) = { <<>>, << <<>> >> }
    /\ StoredActions(allowTree, << <<>> >>) = {Star, <<"r">>}

\* the number of segments of the query of a call
QueryDepth(call) == Len(split(call.path, ColonColon))

RECURSIVE Power3(_)
Power3(n) == IF n = 0 THEN 1 ELSE 3 * Power3(n - 1)

\* the work the visits still to make can cause: a visit with n segments left
\* hands on at most two visits with n - 1 segments left
RECURSIVE Work(_)
Work(stack) ==
    IF stack = <<>> THEN 0
    ELSE Power3(Len(Head(stack).segments)) + Work(Tail(stack))

\* the tree a call walks first
FirstTree(call) == IF call.op = "isAllowed" THEN "deny" ELSE "allow"

\* a natural number that bounds the visits a call has left: the work of its
\* stack, and the whole second tree while it is still in the first
Rank(call) ==
    IF call.pc \notin {"deny", "allow"} THEN 0
    ELSE Work(call.stack)
         + (IF call.pc = FirstTree(call) THEN Power3(QueryDepth(call)) ELSE 0)

\* C25: every isAllowed and explain call terminates. Each visit still to make
\* stands as many keys below the root as segments have been taken off the
\* query, so every recursive call got a segment list one shorter than its
\* caller's and the depth never exceeds the number of segments of the query;
\* a call in progress always has a visit to make, and every visit strictly
\* lowers the rank of its call, so the call returns after finitely many.
C25_Terminates ==
    /\ [](\A c \in Callers : Walking(c) =>
            /\ calls[c].stack # <<>>
            /\ \A i \in 1..Len(calls[c].stack) :
                  /\ Len(calls[c].stack[i].keys) + Len(calls[c].stack[i].segments)
                        = QueryDepth(calls[c])
                  /\ Len(calls[c].stack[i].keys) <= QueryDepth(calls[c]))
    /\ [][\A c \in Callers :
            (Walking(c) /\ calls'[c] # calls[c]) => Rank(calls'[c]) < Rank(calls[c])]_vars

\* an explain call stands at full depth, no segment left, with the visit of
\* the * child still waiting
C25_Witness ==
    \E c \in Callers :
        /\ calls[c].op = "explain"
        /\ Walking(c)
        /\ Len(calls[c].stack) >= 2
        /\ calls[c].stack[1].segments = <<>>
        /\ Len(calls[c].stack[1].keys) = QueryDepth(calls[c])
        /\ calls[c].stack[2].keys[Len(calls[c].stack[2].keys)] = Star

\* no entry of the list occurs twice
Distinct(list) == \A i, j \in 1..Len(list) : list[i] = list[j] => i = j

\* C26: the matchedAllowRules and matchedDenyRules lists explain returns hold
\* each rule text at most once, for every rule list and query, the requested
\* action * and the query segments * and *** included.
C26_NoDuplicates ==
    Explained =>
        /\ Distinct(explanation[1].matchedAllowRules)
        /\ Distinct(explanation[1].matchedDenyRules)

\* the rules with a *** before their last segment and none as last segment
MidTripleRules ==
    { rule \in Rules :
        /\ rule.segments[Len(rule.segments)] # TripleStar
        /\ \E i \in 1..(Len(rule.segments) - 1) : rule.segments[i] = TripleStar }

\* C27: a *** is a multi-segment wildcard only as the last segment of its
\* rule. A rule with segments after its *** is reported by explain exactly
\* when its action is * or the requested one and the query matches it one
\* segment for one, the literal segment *** at the place of the rule's ***;
\* and when every allow rule is such a rule, isAllowed allows only a query
\* that one of them matches in that way.
C27_TripleOnlyLast ==
    /\ Explained =>
          \A rule \in MidTripleRules :
              RuleText(rule) \in Reported
                  <=> /\ rule.action = Star \/ rule.action = action
                      /\ SegmentsMatch(rule.segments, QuerySegments)
    /\ (Decided /\ decision[1] = TRUE /\ AllowRules \subseteq MidTripleRules) =>
          \E rule \in AllowRules :
              /\ rule.action = Star \/ rule.action = action
              /\ SegmentsMatch(rule.segments, QuerySegments)

\* the rule a::***::b;;r alone has allowed, and been reported for, the query
\* that carries the segment *** itself
C27_Witness ==
    /\ Decided
    /\ Explained
    /\ permissions = << <<"a", ":", ":", "*", "*", "*", ":", ":", "b", ";", ";", "r">> >>
    /\ resourcePath = <<"a", ":", ":", "*", "*", "*", ":", ":", "b">>
    /\ action = <<"r">>
    /\ decision[1] = TRUE
    /\ Reported = { <<"a", ":", ":", "*", "*", "*", ":", ":", "b", ";", ";", "r">> }

\* a rule without any wildcard: a literal action and literal segments
LiteralRule(rule) ==
    /\ rule.action # Star
    /\ \A i \in 1..Len(rule.segments) : rule.segments[i] \notin {Star, TripleStar}

\* the query carries a wildcard token: the action * or a segment * or ***
WildQuery ==
    \/ action = Star
    \/ \E i \in 1..Len(QuerySegments) : QuerySegments[i] \in {Star, TripleStar}

\* C28: wildcards are interpreted on the rule side only. A query that carries
\* * as its action, or * or *** as a segment, is allowed by no list whose
\* allow rules are all literal, and no literal rule is reported for it; and
\* whenever isAllowed allows a query, some allow rule of the list matches the
\* query's actual segments and action.
C28_RuleSideWildcards ==
    /\ (Decided /\ WildQuery /\ \A rule \in AllowRules : LiteralRule(rule))
          => decision[1] = FALSE
    /\ (Explained /\ WildQuery) =>
          \A rule \in Rules : LiteralRule(rule) => RuleText(rule) \notin Reported
    /\ (Decided /\ decision[1] = TRUE) => MatchingAllowRules # {}

\* the literal rule a::b;;r alone has denied the query a::* with action *
C28_Witness ==
    /\ Decided
    /\ Explained
    /\ permissions = << <<"a", ":", ":", "b", ";", ";", "r">> >>
    /\ resourcePath = <<"a", ":", ":", "*">>
    /\ action = Star
    /\ decision[1] = FALSE
    /\ Reported = {}

\* the deny rules and the allow rules a list can be extended with
DenyPool == { perm \in RulePool \cup WildRulePool : isDenied(perm) }
AllowPool == { perm \in RulePool \cup WildRulePool : ~isDenied(perm) }

\* the matcher constructed from the rule list plus one more rule
Extended(perm) == constructor(Append(permissions, perm))

\* C29: deny rules only restrict. When isAllowed returns false for the query
\* on the matcher built from the list, it returns false on the matcher built
\* from the list plus any one deny rule.
C29_DenyOnlyRestricts ==
    (Decided /\ decision[1] = FALSE) =>
        \A d \in DenyPool : ~isAllowed(Extended(d), resourcePath, action)

\* isAllowed has denied, for want of a matching allow rule, a query that no
\* deny rule of the list matches and that a further deny rule would match
C29_Witness ==
    /\ Decided
    /\ decision[1] = FALSE
    /\ AllowRules # {}
    /\ MatchingDenyRules = {}
    /\ \E d \in DenyPool : RuleMatches(ParsedPool[d], QuerySegments, action)

\* C30: allow rules only grant. When isAllowed returns true for the query on
\* the matcher built from the list, it returns true on the matcher built from
\* the list plus any one allow rule; and the deny tree of that matcher is the
\* deny tree of the list.
C30_AllowOnlyGrants ==
    /\ (Decided /\ decision[1] = TRUE) =>
          \A r \in AllowPool : isAllowed(Extended(r), resourcePath, action)
    /\ \A r \in AllowPool : Extended(r).denyTree = denyTree

\* isAllowed has allowed a query next to a deny rule that does not match it,
\* and a further allow rule shares the first trie key of the rule that allows
C30_Witness ==
    /\ Decided
    /\ decision[1] = TRUE
    /\ DenyRules # {}
    /\ \E r \in AllowPool :
          /\ ParsedPool[r] \notin Rules
          /\ \E rule \in MatchingAllowRules : rule.segments[1] = ParsedPool[r].segments[1]

====
